---- MODULE Spec2Model ----
(***************************************************************************)
(* Model of the ray tracer of src/main.rs: Scene::intersect, trace_ray,    *)
(* reflected_ray, Camera::get_ray and the pixel loop of main.              *)
(*                                                                         *)
(* Geometry is carried out in the one-dimensional subspace spanned by the  *)
(* x axis: a Vec3 position or direction is its x component, dot(a, b) is   *)
(* a * b and normalize(d) is the sign of d.  Colours stay three-component. *)
(* Floats are the integers among them.  Surface coordinates and light      *)
(* positions are even; the self-intersection offset sqrt(EPSILON) is Eps,  *)
(* smaller than the spacing of the grid.                                   *)
(***************************************************************************)
EXTENDS Integers, Sequences, FiniteSets, TLC

VARIABLES scene, im, puts, traced, mainpc, x, y, stack, calls

vars == <<scene, im, puts, traced, mainpc, x, y, stack, calls>>

\* ------------------------------------------------------------------ bounds
RENDER_WIDTH == 2
RENDER_HEIGHT == 2
MaxObjects == 2

\* ------------------------------------------------------- program constants
MAX_DEPTH == 1
Eps == 1

None == [none |-> TRUE]

\* ------------------------------------------------------------ vector maths
Zero3 == <<0, 0, 0>>
VAdd(a, b) == <<a[1] + b[1], a[2] + b[2], a[3] + b[3]>>
VScale(a, k) == <<a[1] * k, a[2] * k, a[3] * k>>
Max(a, b) == IF a >= b THEN a ELSE b
Sign(d) == IF d > 0 THEN 1 ELSE IF d < 0 THEN -1 ELSE 0
Sqrt(n) == CHOOSE k \in 0..n : k * k <= n /\ (k + 1) * (k + 1) > n

RECURSIVE Pow(_, _)
Pow(b, e) == IF e = 0 THEN 1 ELSE b * Pow(b, e - 1)

\* Ray::new normalizes the direction
RayNew(origin, dir) == [origin |-> origin, dir |-> Sign(dir)]

IntersectionNew(pos, normal, dist) == [pos |-> pos, normal |-> normal, dist |-> dist]

PointLightNew(pos, color, intensity) == [pos |-> pos, color |-> color, intensity |-> intensity]

\* ------------------------------------------- surfaces and materials (4.1, 4.2)
SphereMaterialNew(color, diffuse, specular, shininess, refl) ==
    [color |-> color, diffuse |-> diffuse, specular |-> specular,
     shininess |-> shininess, reflectivity |-> refl]

PlaneNew(point, normal, material) ==
    [kind |-> "plane", point |-> point, normal |-> normal, material |-> material]

SphereNew(center, radius, material) ==
    [kind |-> "sphere", center |-> center, radius |-> radius, material |-> material]

PlaneIntersect(s, ray) ==
    LET denom == ray.dir * s.normal
        t == ((s.point - ray.origin) * s.normal) * denom
    IN  IF denom = 0 THEN None
        ELSE IF t <= 0 THEN None
        ELSE IntersectionNew(ray.origin + t * ray.dir,
                             IF denom > 0 THEN -s.normal ELSE s.normal, t)

SphereIntersect(s, ray) ==
    LET oc == ray.origin - s.center
        b == 2 * ray.dir * oc
        c == oc * oc - s.radius * s.radius
        disc == b * b - 4 * c
    IN  IF ray.dir = 0 \/ disc < 0 THEN None
        ELSE LET d1 == (-b + Sqrt(disc)) \div 2
                 d2 == (-b - Sqrt(disc)) \div 2
                 d == IF d2 > 0 THEN d2 ELSE d1
                 pos == ray.origin + d * ray.dir
             IN  IF d2 > 0 \/ d1 > 0
                 THEN IntersectionNew(pos, Sign(pos - s.center), d)
                 ELSE None

SurfaceIntersect(s, ray) ==
    IF s.kind = "plane" THEN PlaneIntersect(s, ray) ELSE SphereIntersect(s, ray)

raw_color(m) == m.color

reflectivity(m) == m.reflectivity

\* diffuse + specular response to one light, before intensity scaling
local_color(m, shadow_ray, ray, hit) ==
    LET l == shadow_ray.dir
        n == hit.normal
        refl == l - 2 * (l * n) * n
        diff == Max(0, n * l) * m.diffuse
        spec == Pow(Max(0, refl * (-ray.dir)), m.shininess) * m.specular
    IN  VAdd(VScale(raw_color(m), diff), <<spec, spec, spec>>)

\* --------------------------------------------------------- Scene (71-107)
SceneNew(objects, lights, ambient_coeff, ambient_color, camera) ==
    [objects |-> objects, lights |-> lights, ambient_coeff |-> ambient_coeff,
     ambient_color |-> ambient_color, camera |-> camera]

CloserOrEqual(hit, old_hit) == hit.dist <= old_hit.dist

\* the replacement test of the scan: hit.dist < old_hit.dist
Closer(hit, old_hit) == hit.dist < old_hit.dist

\* one iteration of the scan of Scene::intersect: object i, whose test gave
\* hit, against result, the best so far
ScanStep(i, hit, result) ==
    IF hit = None THEN result
    ELSE IF result = None THEN [obj |-> i, hit |-> hit]
    ELSE IF Closer(hit, result.hit) THEN [obj |-> i, hit |-> hit]
    ELSE result

\* the scan of Scene::intersect from object i on, result being the best so
\* far (the singleton sets make TLC compute hit and result once)
RECURSIVE IntersectFrom(_, _, _, _)
IntersectFrom(objects, ray, i, result) ==
    IF i > Len(objects) THEN result
    ELSE CHOOSE out \in
           { IntersectFrom(objects, ray, i + 1, ScanStep(i, hit, old)) :
               hit \in {SurfaceIntersect(objects[i], ray)}, old \in {result} } : TRUE

SceneIntersect(s, ray) == IntersectFrom(s.objects, ray, 1, None)

\* --------------------------------------------------------- Camera (109-128)
\* The direction of line 125 times 2 * RENDER_WIDTH * RENDER_HEIGHT, which
\* Ray::new normalizes away.
get_ray(cam, px, py) ==
    LET dir == cam.right * (2 * px - RENDER_WIDTH) * RENDER_HEIGHT
               + cam.up * (2 * py - RENDER_HEIGHT) * RENDER_WIDTH
               + cam.dir * 2 * RENDER_WIDTH * RENDER_HEIGHT
    IN  RayNew(cam.pos, dir)

\* ------------------------------------------------------ trace_ray (152-189)
BackgroundGrey == <<50, 50, 50>>

\* line 153
Background == Zero3

OffsetPos(hit) == hit.pos + hit.normal * Eps

ShadowRay(hit, light) == RayNew(OffsetPos(hit), light.pos - OffsetPos(hit))

\* the shadow test of line 164
Unoccluded(s, shadow_ray) == SceneIntersect(s, shadow_ray) = None

LightTermTinted(m, shadow_ray, ray, hit, light) ==
    LET c == local_color(m, shadow_ray, ray, hit)
    IN  VScale(<<c[1] * light.color[1], c[2] * light.color[2], c[3] * light.color[3]>>,
               light.intensity)

\* line 166
LightTerm(m, shadow_ray, ray, hit, light) ==
    VScale(local_color(m, shadow_ray, ray, hit), light.intensity)

AmbientTerm(s, m) == VScale(raw_color(m), s.ambient_coeff)

DepthLimitLate(depth) == depth > MAX_DEPTH

\* line 170
DepthLimit(depth) == depth >= MAX_DEPTH

ReflectsOrZero(m) == reflectivity(m) >= 0

\* line 176
Reflects(m) == reflectivity(m) > 0

NextDepthSame(depth) == depth

\* line 178
NextDepth(depth) == depth + 1

reflected_ray(ray, hit) ==
    RayNew(OffsetPos(hit), ray.dir - hit.normal * 2 * (ray.dir * hit.normal))

ReflectTermUnweighted(m, reflected_color) == reflected_color

\* line 179
ReflectTerm(m, reflected_color) == VScale(reflected_color, reflectivity(m))

\* the per-light loop of lines 161-168 from light i on
RECURSIVE ShadeFrom(_, _, _, _, _, _)
ShadeFrom(s, m, ray, hit, i, color) ==
    IF i > Len(s.lights) THEN color
    ELSE LET shadow_ray == ShadowRay(hit, s.lights[i])
         IN  ShadeFrom(s, m, ray, hit, i + 1,
                       IF Unoccluded(s, shadow_ray)
                       THEN VAdd(color, LightTerm(m, shadow_ray, ray, hit, s.lights[i]))
                       ELSE color)

\* trace_ray as the function it computes
RECURSIVE TraceRayFn(_, _, _)
TraceRayFn(s, ray, depth) ==
    LET r == SceneIntersect(s, ray)
    IN  IF r = None THEN Background
        ELSE LET m == s.objects[r.obj].material
                 color == ShadeFrom(s, m, ray, r.hit, 1, AmbientTerm(s, m))
             IN  IF DepthLimit(depth) THEN color
                 ELSE IF Reflects(m)
                 THEN VAdd(color, ReflectTerm(m, TraceRayFn(s, reflected_ray(ray, r.hit),
                                                            NextDepth(depth))))
                 ELSE color

\* ------------------------------------------------------------ main (130-150)
Clamp(v, lo, hi) == IF v < lo THEN lo ELSE IF v > hi THEN hi ELSE v

Quantize(color) ==
    <<Clamp(color[1], 0, 255), Clamp(color[2], 0, 255), Clamp(color[3], 0, 255)>>

Grid == (0..(RENDER_WIDTH - 1)) \X (0..(RENDER_HEIGHT - 1))

PutAtSwapped(px, py) == <<py, px>>

\* line 143
PutAt(px, py) == <<px, py>>

InRangeShort(i, n) == i + 1 < n

\* lines 134-135: i is within the range 0..n
InRange(i, n) == i < n

\* ------------------------------------------------------------------ scenes
Matte == SphereMaterialNew(<<100, 100, 100>>, 1, 0, 0, 0)
Mirror == SphereMaterialNew(<<0, 0, 200>>, 1, 1, 2, 1)
Glossy == SphereMaterialNew(<<30, 0, 0>>, 2, 1, 1, 2)

Surfaces ==
    { PlaneNew(2, 1, Mirror), PlaneNew(6, -1, Matte), SphereNew(4, 2, Glossy) }

Lights ==
    { PointLightNew(4, <<0, 255, 0>>, 2), PointLightNew(8, <<255, 0, 0>>, 3) }

SeqsUpTo(S, n) == UNION { [1..k -> S] : k \in 0..n }

\* the sequences of distinct lights
LightSetups ==
    { l \in SeqsUpTo(Lights, Cardinality(Lights)) :
        \A i, j \in 1..Len(l) : i # j => l[i] # l[j] }

TheCamera == [pos |-> 5, dir |-> 1, up |-> 1, right |-> 4]

AmbientColors == { <<255, 255, 255>>, <<0, 0, 0>> }

Scenes ==
    { SceneNew(o, l, 2, a, TheCamera) :
        o \in SeqsUpTo(Surfaces, MaxObjects), l \in LightSetups, a \in AmbientColors }

\* no pixel's ray is built from the zero vector (spec 7: a precondition)
RaysDefined(s) == \A p \in Grid : get_ray(s.camera, p[1], p[2]).dir # 0

\* ------------------------------------------------------------ state machine
NewFrame(ray, depth) ==
    [ray |-> ray, depth |-> depth, pc |-> "intersect", color |-> Background,
     hit |-> None, li |-> 1, shadows |-> 0, lit |-> {}, children |-> 0,
     childret |-> None, childcall |-> None]

Top == stack[Len(stack)]

SetTop(f) == [stack EXCEPT ![Len(stack)] = f]

Material(f) == scene.objects[f.hit.obj].material

Init ==
    /\ scene \in { s \in Scenes : RaysDefined(s) }
    /\ im = [p \in Grid |-> Zero3]
    /\ puts = <<>>
    /\ traced = <<>>
    /\ mainpc = "loop"
    /\ x = 0
    /\ y = 0
    /\ stack = <<>>
    /\ calls = 0

\* lines 134-137: the loop enters pixel (x, y) and calls trace_ray at depth 0
MainCall ==
    /\ mainpc = "loop"
    /\ InRange(x, RENDER_WIDTH)
    /\ InRange(y, RENDER_HEIGHT)
    /\ stack' = <<NewFrame(get_ray(scene.camera, x, y), 0)>>
    /\ traced' = Append(traced, <<x, y>>)
    /\ calls' = 1
    /\ mainpc' = "trace"
    /\ UNCHANGED <<scene, im, puts, x, y>>

\* lines 153-158
TraceIntersect ==
    /\ stack # <<>>
    /\ Top.pc = "intersect"
    /\ \E r \in {SceneIntersect(scene, Top.ray)} :
           stack' = SetTop(
             IF r = None
             THEN [Top EXCEPT !.pc = "ret"]
             ELSE [Top EXCEPT !.pc = "lights", !.hit = r,
                              !.color = AmbientTerm(scene, scene.objects[r.obj].material)])
    /\ UNCHANGED <<scene, im, puts, traced, mainpc, x, y, calls>>

\* lines 161-168: one iteration of the loop over the lights
TraceShadow ==
    /\ stack # <<>>
    /\ Top.pc = "lights"
    /\ Top.li <= Len(scene.lights)
    /\ \E light \in {scene.lights[Top.li]} :
       \E shadow_ray \in {ShadowRay(Top.hit.hit, light)} :
       \E pass \in {Unoccluded(scene, shadow_ray)} :
           stack' = SetTop(
             [Top EXCEPT !.li = @ + 1, !.shadows = @ + 1,
                         !.lit = IF pass THEN @ \cup {Top.li} ELSE @,
                         !.color = IF pass
                                   THEN VAdd(@, LightTerm(Material(Top), shadow_ray,
                                                          Top.ray, Top.hit.hit, light))
                                   ELSE @])
    /\ UNCHANGED <<scene, im, puts, traced, mainpc, x, y, calls>>

\* lines 170-172
TraceDepthLimit ==
    /\ stack # <<>>
    /\ Top.pc = "lights"
    /\ Top.li > Len(scene.lights)
    /\ DepthLimit(Top.depth)
    /\ stack' = SetTop([Top EXCEPT !.pc = "ret"])
    /\ UNCHANGED <<scene, im, puts, traced, mainpc, x, y, calls>>

\* lines 175-176, 180-182: reflectivity is not positive
TraceNoReflect ==
    /\ stack # <<>>
    /\ Top.pc = "lights"
    /\ Top.li > Len(scene.lights)
    /\ ~DepthLimit(Top.depth)
    /\ ~Reflects(Material(Top))
    /\ stack' = SetTop([Top EXCEPT !.pc = "ret"])
    /\ UNCHANGED <<scene, im, puts, traced, mainpc, x, y, calls>>

\* lines 175-178: the recursive call
TraceReflect ==
    /\ stack # <<>>
    /\ Top.pc = "lights"
    /\ Top.li > Len(scene.lights)
    /\ ~DepthLimit(Top.depth)
    /\ Reflects(Material(Top))
    /\ LET child == NewFrame(reflected_ray(Top.ray, Top.hit.hit), NextDepth(Top.depth))
       IN  stack' = Append(SetTop([Top EXCEPT !.pc = "wait", !.children = @ + 1,
                                              !.childcall = [ray |-> child.ray,
                                                             depth |-> child.depth]]),
                           child)
    /\ calls' = calls + 1
    /\ UNCHANGED <<scene, im, puts, traced, mainpc, x, y>>

\* lines 178-182: the recursive call returns into its caller
TraceReturn ==
    /\ Len(stack) >= 2
    /\ Top.pc = "ret"
    /\ LET parent == stack[Len(stack) - 1]
           m == scene.objects[parent.hit.obj].material
       IN  stack' = [SubSeq(stack, 1, Len(stack) - 1) EXCEPT ![Len(stack) - 1] =
                       [parent EXCEPT !.pc = "ret", !.childret = Top.color,
                                      !.color = VAdd(@, ReflectTerm(m, Top.color))]]
    /\ UNCHANGED <<scene, im, puts, traced, mainpc, x, y, calls>>

\* lines 137-143: the call of main returns, the pixel is clamped and stored
MainPutPixel ==
    /\ mainpc = "trace"
    /\ Len(stack) = 1
    /\ Top.pc = "ret"
    /\ im' = [p \in Grid |-> IF p = PutAt(x, y) THEN Quantize(Top.color) ELSE im[p]]
    /\ puts' = Append(puts, PutAt(x, y))
    /\ stack' = <<>>
    /\ mainpc' = "loop"
    /\ IF InRange(y + 1, RENDER_HEIGHT)
       THEN x' = x /\ y' = y + 1
       ELSE x' = x + 1 /\ y' = 0
    /\ UNCHANGED <<scene, traced, calls>>

\* line 145: the loop over x is exhausted
MainDone ==
    /\ mainpc = "loop"
    /\ ~InRange(x, RENDER_WIDTH)
    /\ mainpc' = "done"
    /\ UNCHANGED <<scene, im, puts, traced, x, y, stack, calls>>

Next ==
    \/ MainCall
    \/ TraceIntersect
    \/ TraceShadow
    \/ TraceDepthLimit
    \/ TraceNoReflect
    \/ TraceReflect
    \/ TraceReturn
    \/ MainPutPixel
    \/ MainDone

Spec == Init /\ [][Next]_vars

\* main is one thread that runs to completion
FairSpec == Spec /\ WF_vars(Next)

TypeOK ==
    /\ scene \in Scenes
    /\ mainpc \in {"loop", "trace", "done"}
    /\ x \in 0..RENDER_WIDTH
    /\ y \in 0..(RENDER_HEIGHT - 1)
    /\ \A i \in 1..Len(stack) : stack[i].pc \in {"intersect", "lights", "wait", "ret"}

\* ------------------------------------------------------------------ claims
Frames == { stack[i] : i \in 1..Len(stack) }

Returned(f) == f.pc = "ret"

HasHit(f) == f.hit # None

Abs(v) == IF v < 0 THEN -v ELSE v

\* a step that pushes a frame: a recursive call made by the frame on top
Recurses == stack # <<>> /\ Len(stack') = Len(stack) + 1

\* C1: every call of trace_ray at a depth within 0..MAX_DEPTH terminates;
\* each recursive call is made with depth + 1, and no call recurses once
\* its depth has reached MAX_DEPTH.  (A nested call returns before its
\* caller does, so the stack emptying means every call on it has returned.)
C1_Terminates ==
    /\ [][Recurses => /\ Top.depth < MAX_DEPTH
                      /\ stack'[Len(stack')].depth = Top.depth + 1]_vars
    /\ [](\A f \in Frames : f.depth \in 0..MAX_DEPTH)
    /\ (stack # <<>>) ~> (stack = <<>>)

C1_Witness ==
    /\ Len(stack) = 2
    /\ stack[1].depth = 0
    /\ stack[2].depth = MAX_DEPTH
    /\ Returned(stack[2])
    /\ HasHit(stack[2])
    /\ scene.objects[stack[2].hit.obj].material.reflectivity > 0

\* the surfaces of the scene that a ray intersects
HitSet(s, ray) == { i \in 1..Len(s.objects) : SurfaceIntersect(s.objects[i], ray) # None }

NearestFirst(s, ray, r) ==
    IF HitSet(s, ray) = {} THEN r = None
    ELSE /\ r # None
         /\ r.obj \in HitSet(s, ray)
         /\ r.hit = SurfaceIntersect(s.objects[r.obj], ray)
         /\ \A j \in HitSet(s, ray) :
               LET d == SurfaceIntersect(s.objects[j], ray).dist
               IN  /\ r.hit.dist <= d
                   /\ (d = r.hit.dist => r.obj <= j)

AllRays == { RayNew(o, d) : o \in 0..9, d \in {-1, 1} }

\* C2: Scene.intersect returns nothing iff no surface intersects the ray;
\* otherwise the pair of minimal dist, the first in insertion order among
\* the surfaces that share the minimal dist.
C2_NearestFirst ==
    /\ \A f \in Frames : f.pc # "intersect" => NearestFirst(scene, f.ray, f.hit)
    /\ \A ray \in AllRays : NearestFirst(scene, ray, SceneIntersect(scene, ray))

C2_Witness ==
    /\ stack # <<>>
    /\ Top.pc = "lights"
    /\ \E j \in HitSet(scene, Top.ray) :
          /\ j > Top.hit.obj
          /\ SurfaceIntersect(scene.objects[j], Top.ray).dist = Top.hit.hit.dist

\* a surface lies on the shadow ray nearer than the light
SurfaceBeforeLight(s, hit, light) ==
    \E i \in HitSet(s, ShadowRay(hit, light)) :
        SurfaceIntersect(s.objects[i], ShadowRay(hit, light)).dist
            < Abs(light.pos - OffsetPos(hit))

\* C3: at a hit point a light adds its contribution exactly when no surface
\* lies on the shadow ray before the light; a light with no surface between
\* the hit point and the light always adds its contribution.
C3_ShadowBeforeLight ==
    \A f \in Frames :
        HasHit(f) =>
            \A i \in 1..(f.li - 1) :
                (i \in f.lit) <=> ~SurfaceBeforeLight(scene, f.hit.hit, scene.lights[i])

\* C4: an invocation makes a recursive call iff the ray hits a surface,
\* depth < MAX_DEPTH and the reflectivity of the hit material is > 0; an
\* invocation at depth >= MAX_DEPTH returns right after the loop over the
\* lights, whatever the reflectivity.
C4_RecursesIff ==
    /\ \A f \in Frames :
          /\ f.children \in {0, 1}
          /\ f.pc \in {"wait", "ret"} =>
                (f.children = 1 <=>
                    /\ HasHit(f)
                    /\ f.depth < MAX_DEPTH
                    /\ scene.objects[f.hit.obj].material.reflectivity > 0)
          /\ (Returned(f) /\ HasHit(f) /\ f.depth >= MAX_DEPTH) =>
                /\ f.childret = None
                /\ f.li = Len(scene.lights) + 1
                /\ f.shadows = Len(scene.lights)
    /\ \A i \in 1..(Len(stack) - 1) : stack[i].pc = "wait" /\ stack[i].children = 1

C4_Witness ==
    /\ Len(stack) = 2
    /\ stack[1].children = 1
    /\ Returned(stack[2])
    /\ HasHit(stack[2])
    /\ stack[2].depth >= MAX_DEPTH
    /\ scene.objects[stack[2].hit.obj].material.reflectivity > 0
    /\ stack[2].children = 0

\* C5: when no surface is hit, trace_ray returns the background (0,0,0),
\* at every depth, having cast no shadow ray and made no recursive call.
C5_MissIsBackground ==
    \A f \in Frames :
        (f.pc # "intersect" /\ ~HasHit(f)) =>
            /\ Returned(f)
            /\ HitSet(scene, f.ray) = {}
            /\ f.color = <<0, 0, 0>>
            /\ f.shadows = 0
            /\ f.children = 0

C5_Witness ==
    /\ Len(stack) = 2
    /\ stack[2].depth = 1
    /\ Returned(stack[2])
    /\ ~HasHit(stack[2])
    /\ scene.lights # <<>>

\* the colour of a pixel as a function of the scene and the pixel alone
PixelOf(s, p) == Quantize(TraceRayFn(s, get_ray(s.camera, p[1], p[2]), 0))

Count(seq, e) == Cardinality({ i \in 1..Len(seq) : seq[i] = e })

\* C7: the pixel loop completes, and then every pixel of the grid has been
\* traced by one trace_ray call at depth 0 and written exactly once, and no
\* pixel outside the grid has been written.
C7_RenderCompletes ==
    /\ <>(mainpc = "done")
    /\ [](mainpc = "done" =>
            /\ \A p \in Grid : Count(puts, p) = 1 /\ Count(traced, p) = 1
            /\ \A i \in 1..Len(puts) : puts[i] \in Grid
            /\ \A i \in 1..Len(traced) : traced[i] \in Grid
            /\ stack = <<>>)
    /\ [][stack = <<>> /\ stack' # <<>> => Len(stack') = 1 /\ stack'[1].depth = 0]_vars

C7_Witness ==
    /\ mainpc = "done"
    /\ Len(puts) = RENDER_WIDTH * RENDER_HEIGHT

\* the sum of local_color * intensity over the lights from i on that pass
\* the shadow test
RECURSIVE DirectSum(_, _)
DirectSum(f, i) ==
    IF i > Len(scene.lights) THEN Zero3
    ELSE LET light == scene.lights[i]
             sr == ShadowRay(f.hit.hit, light)
             rest == DirectSum(f, i + 1)
         IN  IF SceneIntersect(scene, sr) = None
             THEN VAdd(VScale(local_color(scene.objects[f.hit.obj].material, sr, f.ray,
                                          f.hit.hit), light.intensity), rest)
             ELSE rest

\* C8: for a ray that hits, the returned colour is the plain sum of
\* raw_color * ambient_coeff, local_color * intensity for each light that
\* passes the shadow test, and (only when depth < MAX_DEPTH and
\* reflectivity > 0) reflectivity * trace_ray(reflected ray, depth + 1),
\* neither clamped nor normalized.
C8_PlainSum ==
    \A f \in Frames :
        (Returned(f) /\ HasHit(f)) =>
            LET m == scene.objects[f.hit.obj].material
                rec == f.depth < MAX_DEPTH /\ m.reflectivity > 0
            IN  /\ rec => /\ f.childcall = [ray |-> reflected_ray(f.ray, f.hit.hit),
                                            depth |-> f.depth + 1]
                          /\ f.childret = TraceRayFn(scene, f.childcall.ray,
                                                     f.childcall.depth)
                /\ f.color = VAdd(VAdd(VScale(m.color, scene.ambient_coeff),
                                       DirectSum(f, 1)),
                                  IF rec THEN VScale(f.childret, m.reflectivity)
                                  ELSE Zero3)

C8_Witness ==
    /\ Len(stack) = 1
    /\ Returned(Top)
    /\ HasHit(Top)
    /\ Top.children = 1
    /\ Top.childret # Zero3
    /\ Top.lit # {}
    /\ scene.objects[Top.hit.obj].material.reflectivity > 1
    /\ \E k \in 1..3 : Top.color[k] > 255

\* C9: the depth of every active invocation is at most MAX_DEPTH, each
\* invocation has at most one child, and one primary ray causes at most
\* MAX_DEPTH + 1 invocations, nested as a chain.
C9_LinearChain ==
    /\ \A i \in 1..Len(stack) :
          /\ stack[i].depth = i - 1
          /\ stack[i].depth <= MAX_DEPTH
          /\ stack[i].children <= 1
    /\ Len(stack) <= MAX_DEPTH + 1
    /\ calls <= MAX_DEPTH + 1

C9_Witness ==
    /\ calls = MAX_DEPTH + 1
    /\ Len(stack) = 1
    /\ Returned(Top)
    /\ Top.children = 1

\* the scene with ambient_color and every light's color blanked
Erase(s) ==
    [s EXCEPT !.ambient_color = Zero3,
              !.lights = [i \in 1..Len(s.lights) |-> [s.lights[i] EXCEPT !.color = Zero3]]]

\* C10: the result of trace_ray does not depend on scene.ambient_color nor
\* on the color of any light: it is the result for the scene with those
\* fields blanked, for every ray and depth traced.
C10_ColorFieldsUnread ==
    \A f \in Frames :
        Returned(f) => f.color = TraceRayFn(Erase(scene), f.ray, f.depth)

C10_Witness ==
    /\ stack # <<>>
    /\ scene.ambient_color # Zero3
    /\ Returned(Top)
    /\ Top.lit # {}
    /\ \E i \in Top.lit : scene.lights[i].color # Zero3
    /\ Erase(scene) # scene

====
